---- MODULE Spec2Model ----
(***************************************************************************)
(* ratewarden: sliding-window admission control.                           *)
(*                                                                         *)
(* The module models the three counting backends of the repository        *)
(* (SlidingWindowLimiter, MemoryStore, RedisStore), the tier table lookup  *)
(* and the Express middleware that drives them.                            *)
(*                                                                         *)
(*   Spec    the three backends fed the same sequence of checkLimit calls  *)
(*           (one call at a time), the sweeper and the store's key expiry. *)
(*   SpecMw  the middleware with several requests in flight, each `await`  *)
(*           of the code being a point where another request may run.      *)
(*   SpecCfg the backends of Spec behind options that are out of range or  *)
(*           left out.                                                     *)
(*   SpecResolve  one request taken through identity, tier and limit.      *)
(*   SpecLocal    the MemoryStore instances of one process, their sweepers *)
(*           and a legacy SlidingWindowLimiter given the same calls.       *)
(*   SpecSweep    one middleware with the local backend, under fairness.   *)
(*   SpecTtl      the shared backend alone, for several window lengths.    *)
(*   SpecOut      the middleware with a next() and a response that throw.  *)
(*   SpecInit     the construction of the RedisStore and its middleware.   *)
(*   SpecTimer    a CleanupManager that is started and stopped.            *)
(*                                                                         *)
(* Time is the value of Date.now() in milliseconds.                        *)
(***************************************************************************)
EXTENDS Integers, Sequences, FiniteSets, TLC

(***************************************************************************)
(* Bounds of the model.                                                    *)
(***************************************************************************)
MaxTime == 1002
MaxCalls == 4
MaxLimit == 2

(* the clock advances by one of these steps: differences of 499, 500, 501, *)
(* 999, 1000 and 1001 ms between two calls all occur                       *)
Deltas == {500, 501}

Ids == {"a", "b"}
TierNames == {"guest", "free"}
WindowChoices == {1000}

(***************************************************************************)
(* JavaScript numbers that are not finite integers.                        *)
(***************************************************************************)
Infinity == 1000000000
NaN == -1000000000
Undefined == -1000000001

Limits == (0..MaxLimit) \cup {Infinity}

(* a >= b *)
JsGE(a, b) ==
    IF a \in {NaN, Undefined} \/ b \in {NaN, Undefined} THEN FALSE ELSE a >= b

(* a + b *)
JsAdd(a, b) ==
    IF a \in {NaN, Undefined} \/ b \in {NaN, Undefined} THEN NaN
    ELSE IF a = Infinity \/ b = Infinity THEN Infinity
    ELSE a + b

(* a - b, b finite or not a number *)
JsSub(a, b) ==
    IF a \in {NaN, Undefined} \/ b \in {NaN, Undefined} THEN NaN
    ELSE IF a = Infinity THEN Infinity
    ELSE a - b

(* Math.ceil(x / 1000) *)
CeilSeconds(x) ==
    IF x \in {NaN, Undefined} THEN NaN
    ELSE IF x = Infinity THEN Infinity
    ELSE -((-x) \div 1000)

(* timestamps[0] *)
First(ts) == IF Len(ts) > 0 THEN ts[1] ELSE Undefined

(***************************************************************************)
(* Map operations (JavaScript Map, Redis keyspace).                        *)
(***************************************************************************)
EmptyMap == [k \in {} |-> 0]

MapGet(m, k, dflt) == IF k \in DOMAIN m THEN m[k] ELSE dflt

MapSet(m, k, v) == [x \in (DOMAIN m) \cup {k} |-> IF x = k THEN v ELSE m[x]]

MapDelete(m, k) == [x \in (DOMAIN m) \ {k} |-> m[x]]

(***************************************************************************)
(* Tier table.                                                             *)
(***************************************************************************)
TierTables ==
    {[guest |-> MaxLimit - 1, free |-> MaxLimit],
     [guest |-> MaxLimit, free |-> MaxLimit],
     [guest |-> 0, free |-> Infinity]}

(* the defaults of tier.js *)
DEFAULT_TIERS == [free |-> 60, pro |-> 600, admin |-> Infinity, guest |-> 30]
DEFAULT_WINDOW_MS == 60000

(* some of the property names every object inherits from Object.prototype; *)
(* the value of such a property is a function                              *)
ObjectPrototype == {"constructor", "toString"}
JsFunction == -1000000002

(* config[name] of a plain object: its own entry, else the inherited       *)
(* property, else undefined                                                *)
JsProperty(table, name) ==
    IF name \in DOMAIN table THEN table[name]
    ELSE IF name \in ObjectPrototype THEN JsFunction
    ELSE Undefined

(* the tiers argument is the table of the configuration, which is never    *)
(* missing: rateGuard() has put DEFAULT_TIERS in its place                 *)
getTierLimit(tier, table) ==
    IF JsProperty(table, tier) # Undefined THEN JsProperty(table, tier)
    ELSE JsProperty(table, "free")

(***************************************************************************)
(* A decision as returned by checkLimit.                                   *)
(***************************************************************************)
Decision(allowed, current, remaining, resetTime, retryAfter) ==
    [allowed |-> allowed, current |-> current, remaining |-> remaining,
     resetTime |-> resetTime, retryAfter |-> retryAfter]

NoDecision == Decision(FALSE, 0, 0, 0, 0)

(***************************************************************************)
(* SlidingWindowLimiter (legacy limiter): the map after the call and the   *)
(* decision.                                                               *)
(***************************************************************************)
(* variant: remaining is computed before the timestamp is pushed *)
SlidingWindowLimiter_checkLimit_RemainingBeforePush(map, identityKey, limit, t, w) ==
    LET windowStart == t - w
        timestamps == SelectSeq(MapGet(map, identityKey, <<>>),
                                LAMBDA ts : ts > windowStart)
        resetTime == IF Len(timestamps) > 0
                     THEN CeilSeconds(JsAdd(timestamps[1], w))
                     ELSE CeilSeconds(t + w)
    IN  IF JsGE(Len(timestamps), limit)
        THEN [map |-> MapSet(map, identityKey, timestamps),
              res |-> Decision(FALSE, Len(timestamps), 0, resetTime,
                        CeilSeconds(JsSub(JsAdd(First(timestamps), w), t)))]
        ELSE LET pushed == Append(timestamps, t)
             IN  [map |-> MapSet(map, identityKey, pushed),
                  res |-> Decision(TRUE, Len(pushed),
                                   JsSub(limit, Len(timestamps)), resetTime, 0)]

SlidingWindowLimiter_checkLimit(map, identityKey, limit, t, w) ==
    LET windowStart == t - w
        timestamps == SelectSeq(MapGet(map, identityKey, <<>>),
                                LAMBDA ts : ts > windowStart)
        resetTime == IF Len(timestamps) > 0
                     THEN CeilSeconds(JsAdd(timestamps[1], w))
                     ELSE CeilSeconds(t + w)
    IN  IF JsGE(Len(timestamps), limit)
        THEN [map |-> MapSet(map, identityKey, timestamps),
              res |-> Decision(FALSE, Len(timestamps), 0, resetTime,
                        CeilSeconds(JsSub(JsAdd(First(timestamps), w), t)))]
        ELSE LET pushed == Append(timestamps, t)
             IN  [map |-> MapSet(map, identityKey, pushed),
                  res |-> Decision(TRUE, Len(pushed),
                                   JsSub(limit, Len(pushed)), resetTime, 0)]

(* variant: a key whose timestamps have all expired is kept, empty *)
SlidingWindowLimiter_cleanup_KeepEmpty(map, t, w) ==
    LET windowStart == t - w
        valid(k) == SelectSeq(map[k], LAMBDA ts : ts > windowStart)
    IN  [k \in DOMAIN map |-> valid(k)]

SlidingWindowLimiter_cleanup(map, t, w) ==
    LET windowStart == t - w
        valid(k) == SelectSeq(map[k], LAMBDA ts : ts > windowStart)
        kept == {k \in DOMAIN map : Len(valid(k)) # 0}
    IN  [k \in kept |-> valid(k)]

(***************************************************************************)
(* MemoryStore: the map after the call and the decision.                   *)
(***************************************************************************)
(* variant: the limit test is > where the code has >= *)
MemoryStore_checkLimit_OffByOne(map, identityKey, limit, t, w) ==
    LET windowStart == t - w
        timestamps == SelectSeq(MapGet(map, identityKey, <<>>),
                                LAMBDA ts : ts > windowStart)
        resetTime == IF Len(timestamps) > 0
                     THEN CeilSeconds(JsAdd(timestamps[1], w))
                     ELSE CeilSeconds(t + w)
    IN  IF JsGE(Len(timestamps), limit) /\ Len(timestamps) # limit
        THEN [map |-> MapSet(map, identityKey, timestamps),
              res |-> Decision(FALSE, Len(timestamps), 0, resetTime,
                        CeilSeconds(JsSub(JsAdd(First(timestamps), w), t)))]
        ELSE LET pushed == Append(timestamps, t)
             IN  [map |-> MapSet(map, identityKey, pushed),
                  res |-> Decision(TRUE, Len(pushed),
                                   JsSub(limit, Len(pushed)), resetTime, 0)]

(* variant: the allowed branch pushes the timestamp but does not store the *)
(* array back                                                              *)
MemoryStore_checkLimit_NoStore(map, identityKey, limit, t, w) ==
    LET windowStart == t - w
        timestamps == SelectSeq(MapGet(map, identityKey, <<>>),
                                LAMBDA ts : ts > windowStart)
        resetTime == IF Len(timestamps) > 0
                     THEN CeilSeconds(JsAdd(timestamps[1], w))
                     ELSE CeilSeconds(t + w)
    IN  IF JsGE(Len(timestamps), limit)
        THEN [map |-> MapSet(map, identityKey, timestamps),
              res |-> Decision(FALSE, Len(timestamps), 0, resetTime,
                        CeilSeconds(JsSub(JsAdd(First(timestamps), w), t)))]
        ELSE LET pushed == Append(timestamps, t)
             IN  [map |-> MapSet(map, identityKey, timestamps),
                  res |-> Decision(TRUE, Len(pushed),
                                   JsSub(limit, Len(pushed)), resetTime, 0)]

(* variant: the filter keeps a timestamp equal to windowStart *)
MemoryStore_checkLimit_KeepBoundary(map, identityKey, limit, t, w) ==
    LET windowStart == t - w
        timestamps == SelectSeq(MapGet(map, identityKey, <<>>),
                                LAMBDA ts : ts >= windowStart)
        resetTime == IF Len(timestamps) > 0
                     THEN CeilSeconds(JsAdd(timestamps[1], w))
                     ELSE CeilSeconds(t + w)
    IN  IF JsGE(Len(timestamps), limit)
        THEN [map |-> MapSet(map, identityKey, timestamps),
              res |-> Decision(FALSE, Len(timestamps), 0, resetTime,
                        CeilSeconds(JsSub(JsAdd(First(timestamps), w), t)))]
        ELSE LET pushed == Append(timestamps, t)
             IN  [map |-> MapSet(map, identityKey, pushed),
                  res |-> Decision(TRUE, Len(pushed),
                                   JsSub(limit, Len(pushed)), resetTime, 0)]

(* variant: the deny branch stores the array with the timestamp pushed *)
MemoryStore_checkLimit_DenyAppends(map, identityKey, limit, t, w) ==
    LET windowStart == t - w
        timestamps == SelectSeq(MapGet(map, identityKey, <<>>),
                                LAMBDA ts : ts > windowStart)
        resetTime == IF Len(timestamps) > 0
                     THEN CeilSeconds(JsAdd(timestamps[1], w))
                     ELSE CeilSeconds(t + w)
    IN  IF JsGE(Len(timestamps), limit)
        THEN [map |-> MapSet(map, identityKey, Append(timestamps, t)),
              res |-> Decision(FALSE, Len(timestamps), 0, resetTime,
                        CeilSeconds(JsSub(JsAdd(First(timestamps), w), t)))]
        ELSE LET pushed == Append(timestamps, t)
             IN  [map |-> MapSet(map, identityKey, pushed),
                  res |-> Decision(TRUE, Len(pushed),
                                   JsSub(limit, Len(pushed)), resetTime, 0)]

(* variant: the timestamp is put in front of the array (unshift) *)
MemoryStore_checkLimit_Unshift(map, identityKey, limit, t, w) ==
    LET windowStart == t - w
        timestamps == SelectSeq(MapGet(map, identityKey, <<>>),
                                LAMBDA ts : ts > windowStart)
        resetTime == IF Len(timestamps) > 0
                     THEN CeilSeconds(JsAdd(timestamps[1], w))
                     ELSE CeilSeconds(t + w)
    IN  IF JsGE(Len(timestamps), limit)
        THEN [map |-> MapSet(map, identityKey, timestamps),
              res |-> Decision(FALSE, Len(timestamps), 0, resetTime,
                        CeilSeconds(JsSub(JsAdd(First(timestamps), w), t)))]
        ELSE LET pushed == <<t>> \o timestamps
             IN  [map |-> MapSet(map, identityKey, pushed),
                  res |-> Decision(TRUE, Len(pushed),
                                   JsSub(limit, Len(pushed)), resetTime, 0)]

MemoryStore_checkLimit(map, identityKey, limit, t, w) ==
    LET windowStart == t - w
        timestamps == SelectSeq(MapGet(map, identityKey, <<>>),
                                LAMBDA ts : ts > windowStart)
        resetTime == IF Len(timestamps) > 0
                     THEN CeilSeconds(JsAdd(timestamps[1], w))
                     ELSE CeilSeconds(t + w)
    IN  IF JsGE(Len(timestamps), limit)
        THEN [map |-> MapSet(map, identityKey, timestamps),
              res |-> Decision(FALSE, Len(timestamps), 0, resetTime,
                        CeilSeconds(JsSub(JsAdd(First(timestamps), w), t)))]
        ELSE LET pushed == Append(timestamps, t)
             IN  [map |-> MapSet(map, identityKey, pushed),
                  res |-> Decision(TRUE, Len(pushed),
                                   JsSub(limit, Len(pushed)), resetTime, 0)]

(* variant: a key whose timestamps have all expired is kept, empty *)
MemoryStore_cleanup_KeepEmpty(map, t, w) ==
    LET windowStart == t - w
        valid(k) == SelectSeq(map[k], LAMBDA ts : ts > windowStart)
    IN  [k \in DOMAIN map |-> valid(k)]

(* variant: a key is deleted as soon as its oldest timestamp has expired *)
MemoryStore_cleanup_DropLive(map, t, w) ==
    LET windowStart == t - w
        valid(k) == SelectSeq(map[k], LAMBDA ts : ts > windowStart)
        kept == {k \in DOMAIN map : Len(map[k]) > 0 /\ map[k][1] > windowStart}
    IN  [k \in kept |-> valid(k)]

MemoryStore_cleanup(map, t, w) ==
    LET windowStart == t - w
        valid(k) == SelectSeq(map[k], LAMBDA ts : ts > windowStart)
        kept == {k \in DOMAIN map : Len(valid(k)) # 0}
    IN  [k \in kept |-> valid(k)]

(***************************************************************************)
(* Member strings of the sorted sets: `${now}-${random}`.                  *)
(* A decimal string is the sequence of its digits.                         *)
(***************************************************************************)
RECURSIVE DecStr(_)
DecStr(n) == IF n < 10 THEN <<n>> ELSE Append(DecStr(n \div 10), n % 10)

RECURSIVE ParseDigits(_)
ParseDigits(s) ==
    IF Len(s) = 0 THEN 0
    ELSE 10 * ParseDigits(SubSeq(s, 1, Len(s) - 1)) + s[Len(s)]

(* parseInt(str) of a string of decimal digits *)
parseInt(s) == IF Len(s) = 0 THEN NaN ELSE ParseDigits(s)

(* `${now}-${rnd}` *)
MemberValue(t, rnd) == [ts |-> DecStr(t), rnd |-> rnd]

(* member.split('-')[0] *)
SplitFirst(value) == value.ts

(* Math.random().toString(36).substr(2, 9): a tag that no member counted   *)
(* so far carries (two draws of nine base-36 digits are taken to differ);  *)
(* the tags are interchangeable, so the least unused one is taken.         *)
RandomTag(used) == CHOOSE n \in 1..(Cardinality(used) + 1) :
                      /\ n \notin used
                      /\ \A k \in 1..(n - 1) : k \in used

(***************************************************************************)
(* The Redis server: db.zsets maps a key to its non-empty sorted set (a    *)
(* set of members, each with a score), db.ttl maps a key to the time at    *)
(* which the server drops it.                                              *)
(***************************************************************************)
EmptyDb == [zsets |-> EmptyMap, ttl |-> EmptyMap]

DbDelete(db, key) ==
    [zsets |-> MapDelete(db.zsets, key), ttl |-> MapDelete(db.ttl, key)]

(* keys whose time-to-live has run out are gone for every command *)
DueKeys(db, t) == {k \in DOMAIN db.ttl : db.ttl[k] <= t}

PurgeExpired(db, t) ==
    [zsets |-> [k \in (DOMAIN db.zsets) \ DueKeys(db, t) |-> db.zsets[k]],
     ttl |-> [k \in (DOMAIN db.ttl) \ DueKeys(db, t) |-> db.ttl[k]]]

(* variant: the upper end of the range is exclusive *)
ZRemRangeByScore_Exclusive(db, key, min, max) ==
    IF key \notin DOMAIN db.zsets THEN db
    ELSE LET rest == {m \in db.zsets[key] : ~(min <= m.score /\ m.score < max)}
         IN  IF rest = {} THEN DbDelete(db, key)
             ELSE [db EXCEPT !.zsets = MapSet(db.zsets, key, rest)]

ZRemRangeByScore(db, key, min, max) ==
    IF key \notin DOMAIN db.zsets THEN db
    ELSE LET rest == {m \in db.zsets[key] : ~(min <= m.score /\ m.score <= max)}
         IN  IF rest = {} THEN DbDelete(db, key)
             ELSE [db EXCEPT !.zsets = MapSet(db.zsets, key, rest)]

ZCard(db, key) == Cardinality(MapGet(db.zsets, key, {}))

(* the member of lowest score, ties in the order of the member strings *)
ZRangeFirst(db, key) ==
    LET set == MapGet(db.zsets, key, {})
    IN  IF set = {} THEN <<>>
        ELSE LET m == CHOOSE x \in set : \A y \in set :
                         \/ x.score < y.score
                         \/ x.score = y.score /\ x.value.rnd <= y.value.rnd
             IN  <<m.value>>

ZAdd(db, key, score, value) ==
    LET old == MapGet(db.zsets, key, {})
        new == {m \in old : m.value # value}
                  \cup {[score |-> score, value |-> value]}
    IN  [db EXCEPT !.zsets = MapSet(db.zsets, key, new)]

Expire(db, key, seconds, t) ==
    IF key \notin DOMAIN db.zsets THEN db
    ELSE [db EXCEPT !.ttl = MapSet(db.ttl, key, t + seconds * 1000)]

(***************************************************************************)
(* RedisStore.                                                             *)
(***************************************************************************)
Prefix == "ratewarden:"

(* variant: the key leaves the identity out *)
RedisStore_getKey_NoIdentity(identityKey, tier) == Prefix \o tier \o ":"

RedisStore_getKey(identityKey, tier) == Prefix \o tier \o ":" \o identityKey

(* multi.zRemRangeByScore / zCard / zRange, run by the server at time      *)
(* srv as one transaction; t is the Date.now() of the caller               *)
RedisStore_exec(db, key, t, w, srv) ==
    LET windowStart == t - w
        d1 == ZRemRangeByScore(PurgeExpired(db, srv), key, 0, windowStart)
    IN  [db |-> d1, results |-> <<0, ZCard(d1, key), ZRangeFirst(d1, key)>>]

(* variant: the reset time is always computed from the time of the call *)
RedisStore_resetTime_FromNow(results, t, w) == CeilSeconds(t + w)

RedisStore_resetTime(results, t, w) ==
    LET oldestEntries == results[3]
    IN  IF Len(oldestEntries) > 0
        THEN CeilSeconds(JsAdd(parseInt(SplitFirst(oldestEntries[1])), w))
        ELSE CeilSeconds(t + w)

(* variant: a limit that is not a finite number counts as 0 *)
RedisStore_exceeded_NullLimit(results, limit) ==
    JsGE(results[2], IF limit \in {Infinity, NaN, Undefined} THEN 0 ELSE limit)

RedisStore_exceeded(results, limit) == JsGE(results[2], limit)

(* variant: the denial reports the count as remaining *)
RedisStore_denied_Remaining(results, t, w) ==
    LET oldestEntries == results[3]
        retryAfter == IF Len(oldestEntries) > 0
                      THEN CeilSeconds(JsSub(JsAdd(
                               parseInt(SplitFirst(oldestEntries[1])), w), t))
                      ELSE 0
    IN  Decision(FALSE, results[2], results[2],
                 RedisStore_resetTime(results, t, w), retryAfter)

RedisStore_denied(results, t, w) ==
    LET oldestEntries == results[3]
        retryAfter == IF Len(oldestEntries) > 0
                      THEN CeilSeconds(JsSub(JsAdd(
                               parseInt(SplitFirst(oldestEntries[1])), w), t))
                      ELSE 0
    IN  Decision(FALSE, results[2], 0, RedisStore_resetTime(results, t, w),
                 retryAfter)

RedisStore_zAdd(db, key, t, rnd, srv) ==
    ZAdd(PurgeExpired(db, srv), key, t, MemberValue(t, rnd))

RedisStore_ttlSeconds(w) == (-((-w) \div 1000)) * 2

RedisStore_expire(db, key, w, srv) ==
    Expire(PurgeExpired(db, srv), key, RedisStore_ttlSeconds(w), srv)

(* variant: current is the count read by the transaction *)
RedisStore_allowed_NoIncrement(results, limit, t, w) ==
    Decision(TRUE, results[2], JsSub(JsSub(limit, results[2]), 1),
             RedisStore_resetTime(results, t, w), 0)

RedisStore_allowed(results, limit, t, w) ==
    Decision(TRUE, results[2] + 1, JsSub(JsSub(limit, results[2]), 1),
             RedisStore_resetTime(results, t, w), 0)

UsedTags(db, key) == {m.value.rnd : m \in MapGet(db.zsets, key, {})}

(* one checkLimit call that runs alone, all commands at time t *)
RedisStore_checkLimit(db, identityKey, limit, tier, t, w) ==
    LET key == RedisStore_getKey(identityKey, tier)
        ex == RedisStore_exec(db, key, t, w, t)
    IN  IF RedisStore_exceeded(ex.results, limit)
        THEN [db |-> ex.db, res |-> RedisStore_denied(ex.results, t, w)]
        ELSE LET added == RedisStore_zAdd(ex.db, key, t,
                              RandomTag(UsedTags(ex.db, key)), t)
             IN  [db |-> RedisStore_expire(added, key, w, t),
                  res |-> RedisStore_allowed(ex.results, limit, t, w)]

(***************************************************************************)
(* State.                                                                  *)
(***************************************************************************)
VARIABLES
    now,        \* Date.now()
    windowMs,   \* config.windowMs
    tiers,      \* config.tiers
    limiter,    \* SlidingWindowLimiter.requests
    requests,   \* MemoryStore.requests
    db,         \* the Redis server behind RedisStore.client
    ncalls,     \* number of checkLimit calls made so far
    last,       \* the last call: its arguments and the three decisions
    admM,       \* history: times of the calls MemoryStore allowed, per key
    admR,       \* history: times of the calls RedisStore allowed, per key
    limsM,      \* history: the limits MemoryStore was called with, per key
    burstM,     \* history: the calls made on a MemoryStore key since fresh
    burstR,     \* history: the calls made on a RedisStore key since fresh
    denyM,      \* history: the pending denial of a MemoryStore key
    denyR,      \* history: the pending denial of a RedisStore key
    useRedis,   \* config.redisClient is set
    pc,         \* middleware: where each request stands
    rq,         \* middleware: the local variables of each request
    options,    \* the argument of rateGuard()
    fn,         \* one request taken through the steps 1 to 3 of the middleware
    loc,        \* the MemoryStore instances of the process and their sweepers
    conn        \* the Redis client and the RedisStore constructed on it

storeVars == <<limiter, requests, db>>
histVars == <<ncalls, last, admM, admR, limsM, burstM, burstR, denyM, denyR>>
mwVars == <<useRedis, pc, rq>>
argVars == <<options, fn, loc, conn>>
vars == <<now, windowMs, tiers, storeVars, histVars, mwVars, argVars>>

Reqs == {1, 2}

Pairs == TierNames \X Ids

PairKey(p) == RedisStore_getKey(p[2], p[1])

NoBurst == [n |-> 0, first |-> 0, lim |-> 0]
StaleBurst == [n |-> -1, first |-> 0, lim |-> 0]
NoDeny == [on |-> FALSE, oldest |-> 0, at |-> 0, retryAfter |-> 0, lim |-> 0,
           den |-> FALSE]

NoCall == [id |-> "", tier |-> "", lim |-> 0, t |-> 0,
           m |-> NoDecision, l |-> NoDecision, r |-> NoDecision,
           prevDeny |-> NoDeny, prevDenyR |-> NoDeny]

(***************************************************************************)
(* Identity resolution.  A string is the sequence of its pieces: a header  *)
(* "Bearer t1" is <<"Bearer ", "t1">>, the empty string is <<>>.  A        *)
(* request is a function from the names of the headers and fields it has   *)
(* to their strings.                                                       *)
(***************************************************************************)
Field(req, name) == IF name \in DOMAIN req THEN req[name] ELSE <<>>

(* a || b on strings and missing values *)
JsOr(a, b) == IF a # <<>> THEN a ELSE b

(* SHA-256 in hex: different strings have different digests *)
hashValue(value) == <<"sha256">> \o value

startsWithBearer(str) == Len(str) > 0 /\ str[1] = "Bearer "

RECURSIVE trimStart(_)
trimStart(str) ==
    IF Len(str) > 0 /\ str[1] = " " THEN trimStart(Tail(str)) ELSE str

RECURSIVE trimEnd(_)
trimEnd(str) ==
    IF Len(str) > 0 /\ str[Len(str)] = " "
    THEN trimEnd(SubSeq(str, 1, Len(str) - 1)) ELSE str

trim(str) == trimEnd(trimStart(str))

(* str.split(',')[0] *)
RECURSIVE splitComma(_)
splitComma(str) ==
    IF Len(str) = 0 \/ str[1] = "," THEN <<>>
    ELSE <<str[1]>> \o splitComma(Tail(str))

(* the hashed token, <<>> for null *)
extractFromAuth(req) ==
    LET authHeader == JsOr(Field(req, "authorization"),
                           Field(req, "Authorization"))
        token == IF startsWithBearer(authHeader) THEN Tail(authHeader)
                 ELSE authHeader
    IN  IF authHeader = <<>> THEN <<>>
        ELSE IF token # <<>> THEN hashValue(token) ELSE <<>>

extractFromUserHeader(req) ==
    LET userId == Field(req, "x-user-id")
    IN  IF userId # <<>> THEN hashValue(userId) ELSE <<>>

(* the address chain without the x-real-ip header *)
extractFromIP_NoRealIp(req) ==
    hashValue(JsOr(trim(splitComma(Field(req, "x-forwarded-for"))),
              JsOr(Field(req, "ip"),
              JsOr(Field(req, "remoteAddress"), <<"unknown">>))))

extractFromIP(req) ==
    hashValue(JsOr(trim(splitComma(Field(req, "x-forwarded-for"))),
              JsOr(Field(req, "x-real-ip"),
              JsOr(Field(req, "ip"),
              JsOr(Field(req, "remoteAddress"), <<"unknown">>)))))

Identity(key, source) == [key |-> key, source |-> source]

resolveIdentity(req) ==
    LET tokenKey == extractFromAuth(req)
        userIdKey == extractFromUserHeader(req)
    IN  IF tokenKey # <<>> THEN Identity(tokenKey, "token")
        ELSE IF userIdKey # <<>> THEN Identity(userIdKey, "userId")
        ELSE Identity(extractFromIP(req), "ip")

(***************************************************************************)
(* rateGuard(options): the configuration.  options is a function from the  *)
(* names of the options that are given to their values.                    *)
(***************************************************************************)
rateGuard_config(opts) ==
    [windowMs |-> IF "windowMs" \in DOMAIN opts /\ opts.windowMs # 0
                  THEN opts.windowMs ELSE DEFAULT_WINDOW_MS,
     tiers |-> IF "tiers" \in DOMAIN opts THEN opts.tiers ELSE DEFAULT_TIERS,
     resolveTier |-> IF "resolveTier" \in DOMAIN opts THEN opts.resolveTier
                     ELSE "none",
     keyGenerator |-> "keyGenerator" \in DOMAIN opts]

(* a response header that is not set *)
Unset == <<>>

NoHeaders == [limit |-> Unset, remaining |-> Unset, reset |-> Unset,
              retryAfter |-> Unset]

(* out is how the awaited store.checkLimit ended: "" while it runs, then   *)
(* "decision" or "error"; failedAt is the store command that failed;       *)
(* nexts counts the calls of next(), sent the 429 responses sent           *)
NoRequest == [id |-> "", tier |-> "", lim |-> 0, t |-> 0,
              results |-> <<0, 0, <<>>>>, rnd |-> 0, res |-> NoDecision,
              out |-> "", failedAt |-> "", hdr |-> NoHeaders,
              nexts |-> 0, sent |-> 0]

(* no request is taken through the steps *)
NoFn == [req |-> EmptyMap, step |-> "", key |-> <<>>, source |-> "",
         custom |-> "", tier |-> "", limit |-> 0]

(* no MemoryStore has been created; op is the last operation on the       *)
(* instances, res the decision of the last check on instance 1, legacy a   *)
(* SlidingWindowLimiter and plain a MemoryStore without a sweeper that are *)
(* given the calls of instance 1, n the number of checks so far; timer is  *)
(* the intervalId of the CleanupManager of an instance, active the number  *)
(* of its interval timers that are set and not cleared, calls the last two *)
(* of the start() and stop() calls made on it                              *)
NoLoc == [store |-> EmptyMap, heap |-> EmptyMap, timer |-> EmptyMap,
          active |-> EmptyMap, calls |-> EmptyMap,
          legacy |-> EmptyMap, plain |-> EmptyMap,
          op |-> [name |-> "", inst |-> 0],
          res |-> NoDecision, resLegacy |-> NoDecision,
          resPlain |-> NoDecision, n |-> 0]

(* no RedisStore has been constructed: client is the redisClient that is   *)
(* passed, step where rateGuard() stands, check where _checkConnection()   *)
(* stands, rejections the promises that were rejected with no handler      *)
NoConn == [client |-> [isReady |-> FALSE, isOpen |-> FALSE],
           step |-> "", check |-> "", isConnected |-> FALSE,
           rejections |-> 0]

(* the state after rateGuard(opts) *)
InitWith(opts) ==
    /\ options = opts
    /\ loc = NoLoc
    /\ conn = NoConn
    /\ windowMs = rateGuard_config(opts).windowMs
    /\ tiers = rateGuard_config(opts).tiers
    /\ now = 0
    /\ limiter = EmptyMap
    /\ requests = EmptyMap
    /\ db = EmptyDb
    /\ ncalls = 0
    /\ last = NoCall
    /\ admM = [i \in Ids |-> <<>>]
    /\ admR = [p \in Pairs |-> <<>>]
    /\ limsM = [i \in Ids |-> {}]
    /\ burstM = [i \in Ids |-> NoBurst]
    /\ burstR = [p \in Pairs |-> NoBurst]
    /\ denyM = [i \in Ids |-> NoDeny]
    /\ denyR = [p \in Pairs |-> NoDeny]
    /\ pc = [r \in Reqs |-> "new"]
    /\ rq = [r \in Reqs |-> NoRequest]

Options == {[windowMs |-> w, tiers |-> tb] : w \in WindowChoices,
                                             tb \in TierTables}

InitCommon == fn = NoFn /\ \E opts \in Options : InitWith(opts)

Init == InitCommon /\ useRedis = FALSE

(* the admissions that are still inside the window that ends at t *)
InWindow(seq, t, w) == SelectSeq(seq, LAMBDA x : x > t - w)

(* the calls made on a key since it was fresh, while they stay inside one  *)
(* window and use one limit                                                *)
NextBurst(b, fresh, lim, t, w) ==
    IF fresh THEN [n |-> 1, first |-> t, lim |-> lim]
    ELSE IF b.n > 0 /\ b.lim = lim /\ t < b.first + w
         THEN [b EXCEPT !.n = b.n + 1]
         ELSE StaleBurst

(***************************************************************************)
(* Time passes.                                                            *)
(***************************************************************************)
Tick(d) ==
    /\ now + d <= MaxTime
    /\ now' = now + d
    /\ admM' = [i \in Ids |-> InWindow(admM[i], now + d, windowMs)]
    /\ admR' = [p \in Pairs |-> InWindow(admR[p], now + d, windowMs)]
    /\ UNCHANGED <<windowMs, tiers, argVars, storeVars, ncalls, last, limsM, burstM,
                   burstR, denyM, denyR, mwVars>>

(***************************************************************************)
(* One checkLimit call, made on each of the three backends with the same   *)
(* identity key, tier and limit at the same time: the local backends are   *)
(* called without the tier, as the middleware does.                        *)
(***************************************************************************)
CheckLimit(id, tier) ==
    /\ ncalls < MaxCalls
    /\ LET lim == getTierLimit(tier, tiers)
           l == SlidingWindowLimiter_checkLimit(limiter, id, lim, now, windowMs)
           m == MemoryStore_checkLimit(requests, id, lim, now, windowMs)
           r == RedisStore_checkLimit(db, id, lim, tier, now, windowMs)
           p == <<tier, id>>
           freshR == PairKey(p) \notin DOMAIN PurgeExpired(db, now).zsets
       IN  /\ limiter' = l.map
           /\ requests' = m.map
           /\ db' = r.db
           /\ ncalls' = ncalls + 1
           /\ last' = [id |-> id, tier |-> tier, lim |-> lim, t |-> now,
                       m |-> m.res, l |-> l.res, r |-> r.res,
                       prevDeny |-> denyM[id], prevDenyR |-> denyR[p]]
           /\ admM' = [admM EXCEPT ![id] =
                          IF m.res.allowed
                          THEN Append(InWindow(@, now, windowMs), now)
                          ELSE InWindow(@, now, windowMs)]
           /\ admR' = [admR EXCEPT ![p] =
                          IF r.res.allowed
                          THEN Append(InWindow(@, now, windowMs), now)
                          ELSE InWindow(@, now, windowMs)]
           /\ limsM' = [limsM EXCEPT ![id] = @ \cup {lim}]
           /\ burstM' = [burstM EXCEPT ![id] =
                            NextBurst(@, id \notin DOMAIN requests, lim, now,
                                      windowMs)]
           /\ burstR' = [burstR EXCEPT ![p] =
                            NextBurst(@, freshR, lim, now, windowMs)]
           /\ denyM' = [denyM EXCEPT ![id] =
                           IF m.res.allowed THEN NoDeny
                           ELSE [on |-> Len(m.map[id]) > 0,
                                 oldest |-> First(m.map[id]), at |-> now,
                                 retryAfter |-> m.res.retryAfter,
                                 lim |-> lim, den |-> TRUE]]
           /\ denyR' = [denyR EXCEPT ![p] =
                           IF r.res.allowed THEN NoDeny
                           ELSE [on |-> PairKey(p) \in DOMAIN r.db.zsets,
                                 oldest |-> 0, at |-> now,
                                 retryAfter |-> r.res.retryAfter,
                                 lim |-> lim, den |-> TRUE]]
    /\ UNCHANGED <<now, windowMs, tiers, argVars, mwVars>>

(***************************************************************************)
(* The sweeper: CleanupManager's timer fires and calls cleanup() of the    *)
(* local backend.  RedisStore.cleanup() does nothing.                      *)
(***************************************************************************)
Cleanup ==
    /\ limiter' = SlidingWindowLimiter_cleanup(limiter, now, windowMs)
    /\ requests' = MemoryStore_cleanup(requests, now, windowMs)
    /\ UNCHANGED <<now, windowMs, tiers, argVars, db, histVars, mwVars>>

(***************************************************************************)
(* The Redis server drops a key whose time-to-live has run out.            *)
(***************************************************************************)
RedisKeyExpiry ==
    /\ DueKeys(db, now) # {}
    /\ db' = PurgeExpired(db, now)
    /\ UNCHANGED <<now, windowMs, tiers, argVars, limiter, requests, histVars, mwVars>>

Next ==
    \/ \E d \in Deltas : Tick(d)
    \/ \E id \in Ids, tier \in TierNames : CheckLimit(id, tier)
    \/ Cleanup

Spec == Init /\ [][Next]_vars

(***************************************************************************)
(* The middleware (rateGuardMiddleware) with several requests in flight.   *)
(*                                                                         *)
(* A request moves new -> [exec -> zadd -> expire ->] resume -> next/429,   *)
(* or from a failed store command to threw -> next.                        *)
(* JavaScript runs each piece of code between two awaits to its end, so a  *)
(* piece is one action; the pieces of different requests interleave.       *)
(***************************************************************************)
Sources == {"token", "userId", "ip", "custom"}
CustomTiers == {"", "guest", "free"}

(* what the option resolveTier of rateGuard() may be: missing, a function, *)
(* or a value that is not a function                                       *)
Resolvers == {"none", "function", "string"}

(* a resolver that is never asked *)
resolveTier_IgnoreCustom(source, customResolver, customTier) ==
    IF source = "token" \/ source = "userId" THEN "free" ELSE "guest"

(* customTier is what customResolver(req) returns when it is called, ""    *)
(* when it returns nothing                                                 *)
resolveTier(source, customResolver, customTier) ==
    IF customResolver = "function" /\ customTier # "" THEN customTier
    ELSE IF source = "token" \/ source = "userId" THEN "free"
    ELSE "guest"

InitMw == InitCommon /\ useRedis \in BOOLEAN

TagsInUse ==
    UNION {{m.value.rnd : m \in db.zsets[k]} : k \in DOMAIN db.zsets}
        \cup {rq[r].rnd : r \in Reqs}

(* String(x) of a number: its decimal digits, or the one token Infinity,   *)
(* NaN or undefined (or a negative number)                                 *)
JsString(x) == IF x >= 0 /\ x # Infinity THEN DecStr(x) ELSE <<x>>

(* the limit and the remaining count in each other's header *)
setRateLimitHeaders_Swapped(hdr, limit, remaining, resetTime) ==
    [hdr EXCEPT !.limit = JsString(remaining),
                !.remaining = JsString(limit),
                !.reset = JsString(resetTime)]

setRateLimitHeaders(hdr, limit, remaining, resetTime) ==
    [hdr EXCEPT !.limit = JsString(limit),
                !.remaining = JsString(remaining),
                !.reset = JsString(resetTime)]

setRetryAfterHeader(hdr, retryAfter) ==
    [hdr EXCEPT !.retryAfter = JsString(retryAfter)]

(* the headers after send429Response; the status 429 and the JSON body are *)
(* the position "429" of the request                                       *)
send429Response(hdr, retryAfter) == setRetryAfterHeader(hdr, retryAfter)

(* what config.onLimitReached does when a request is denied: there is no   *)
(* callback, or it returns, or it throws                                   *)
Callbacks == {"none", "returns", "throws"}

(* a store that answers "allowed" when a command fails *)
RedisStore_catch_FailOpen(req, step) ==
    [req EXCEPT !.out = "decision", !.failedAt = step,
                !.res = Decision(TRUE, 0, 0, req.t, 0)]

(* the catch of RedisStore.checkLimit: the local variables of the request  *)
(* after the command `step` failed; the error is thrown on                 *)
RedisStore_catch(req, step) == [req EXCEPT !.out = "error", !.failedAt = step]

(* rateGuard() has no option that selects what happens when the check     *)
(* fails                                                                   *)
config_failOpen == FALSE

(* the requests are interchangeable: they arrive in the order of their     *)
(* numbers.                                                                *)
(* steps 1 to 4 of the middleware up to the first await: identity, tier,   *)
(* limit, and the synchronous part of store.checkLimit.  MemoryStore's     *)
(* checkLimit has no await, it runs to its end here; RedisStore's reads    *)
(* the clock, queues the transaction and waits for exec()                  *)
MwCall(r, id, source, customTier) ==
    /\ pc[r] = "new"
    /\ \A q \in Reqs : q < r => pc[q] # "new"
    /\ LET tier == resolveTier(source, "function", customTier)
           lim == getTierLimit(tier, tiers)
           m == MemoryStore_checkLimit(requests, id, lim, now, windowMs)
           call == [rq[r] EXCEPT !.id = id, !.tier = tier, !.lim = lim,
                                 !.t = now]
       IN  IF useRedis
           THEN /\ rq' = [rq EXCEPT ![r] = call]
                /\ pc' = [pc EXCEPT ![r] = "exec"]
                /\ UNCHANGED requests
           ELSE /\ requests' = m.map
                /\ rq' = [rq EXCEPT ![r] = [call EXCEPT !.res = m.res,
                                                       !.out = "decision"]]
                /\ pc' = [pc EXCEPT ![r] = "resume"]
    /\ UNCHANGED <<now, windowMs, tiers, argVars, limiter, db, histVars, useRedis>>

(* the server runs the MULTI/EXEC transaction; on its reply checkLimit     *)
(* returns the denial or draws the member and sends zAdd                   *)
RedisExec(r) ==
    /\ pc[r] = "exec"
    /\ LET key == RedisStore_getKey(rq[r].id, rq[r].tier)
           ex == RedisStore_exec(db, key, rq[r].t, windowMs, now)
       IN  /\ db' = ex.db
           /\ IF RedisStore_exceeded(ex.results, rq[r].lim)
              THEN /\ rq' = [rq EXCEPT ![r].results = ex.results,
                                ![r].res = RedisStore_denied(ex.results,
                                               rq[r].t, windowMs),
                                ![r].out = "decision"]
                   /\ pc' = [pc EXCEPT ![r] = "resume"]
              ELSE /\ rq' = [rq EXCEPT ![r].results = ex.results,
                                ![r].rnd = RandomTag(TagsInUse)]
                   /\ pc' = [pc EXCEPT ![r] = "zadd"]
    /\ UNCHANGED <<now, windowMs, tiers, argVars, limiter, requests, histVars, useRedis>>

(* the server runs zAdd; on its reply checkLimit sends expire *)
RedisZAdd(r) ==
    /\ pc[r] = "zadd"
    /\ db' = RedisStore_zAdd(db, RedisStore_getKey(rq[r].id, rq[r].tier),
                             rq[r].t, rq[r].rnd, now)
    /\ pc' = [pc EXCEPT ![r] = "expire"]
    /\ UNCHANGED <<now, windowMs, tiers, argVars, limiter, requests, histVars, useRedis,
                   rq>>

(* the server runs expire; on its reply checkLimit returns the admission *)
RedisExpire(r) ==
    /\ pc[r] = "expire"
    /\ db' = RedisStore_expire(db, RedisStore_getKey(rq[r].id, rq[r].tier),
                               windowMs, now)
    /\ rq' = [rq EXCEPT ![r].res = RedisStore_allowed(rq[r].results,
                                       rq[r].lim, rq[r].t, windowMs),
                         ![r].out = "decision"]
    /\ pc' = [pc EXCEPT ![r] = "resume"]
    /\ UNCHANGED <<now, windowMs, tiers, argVars, limiter, requests, histVars, useRedis>>

(* a command of RedisStore.checkLimit fails (the store is unreachable or   *)
(* times out) and is not applied; checkLimit catches and throws            *)
RedisFail(r) ==
    /\ pc[r] \in {"exec", "zadd", "expire"}
    /\ rq' = [rq EXCEPT ![r] = RedisStore_catch(rq[r], pc[r])]
    /\ pc' = [pc EXCEPT ![r] = IF rq'[r].out = "error" THEN "threw"
                               ELSE "resume"]
    /\ UNCHANGED <<now, windowMs, tiers, argVars, storeVars, histVars, useRedis>>

(* what next() does when it is called: it returns, or it throws *)
NextCalls == {"returns", "throws"}

(* what the response object does: nothing goes wrong, or setHeader throws  *)
(* (the headers have been sent already), or status(429).json() throws      *)
(* before anything is sent                                                 *)
ResponseFaults == {"ok", "setHeader", "json"}

(* steps 5 and 6 of the middleware, after the await returned a decision:   *)
(* the headers, then next(), or onLimitReached and the 429.  Whatever is   *)
(* thrown on the way lands in the catch of the middleware, which calls     *)
(* next(); there is no await in between, so the catch runs in the same     *)
(* piece of code; next() is the last statement of the try block, so when   *)
(* it throws the catch calls next() again                                  *)
MwOutcome(r, cb, nx, rs) ==
    /\ pc[r] = "resume"
    /\ LET res == rq[r].res
           h == setRateLimitHeaders(rq[r].hdr, rq[r].lim, res.remaining,
                                    res.resetTime)
           caught(req) == [req EXCEPT !.nexts = @ + 1]
       IN  IF rs = "setHeader"
           THEN /\ rq' = [rq EXCEPT ![r] = caught(rq[r])]
                /\ pc' = [pc EXCEPT ![r] = "next"]
           ELSE IF ~res.allowed
           THEN IF cb = "throws"
                THEN /\ rq' = [rq EXCEPT ![r] =
                                   caught([rq[r] EXCEPT !.hdr = h])]
                     /\ pc' = [pc EXCEPT ![r] = "next"]
                ELSE IF rs = "json"
                THEN /\ rq' = [rq EXCEPT ![r] = caught([rq[r] EXCEPT !.hdr =
                                   send429Response(h, res.retryAfter)])]
                     /\ pc' = [pc EXCEPT ![r] = "next"]
                ELSE /\ rq' = [rq EXCEPT ![r].hdr =
                                   send429Response(h, res.retryAfter),
                                         ![r].sent = @ + 1]
                     /\ pc' = [pc EXCEPT ![r] = "429"]
           ELSE /\ rq' = [rq EXCEPT ![r].hdr = h,
                                    ![r].nexts = IF nx = "throws" THEN @ + 2
                                                 ELSE @ + 1]
                /\ pc' = [pc EXCEPT ![r] = "next"]
    /\ UNCHANGED <<now, windowMs, tiers, argVars, storeVars, histVars, useRedis>>

(* the same piece of code with a next() that returns and a response that   *)
(* takes every call                                                        *)
MwResume(r, cb) == MwOutcome(r, cb, "returns", "ok")

(* the catch of the middleware, after the await threw: the error is logged *)
(* and next() is called                                                    *)
MwCatch(r) ==
    /\ pc[r] = "threw"
    /\ pc' = [pc EXCEPT ![r] = "next"]
    /\ rq' = [rq EXCEPT ![r].nexts = @ + 1]
    /\ UNCHANGED <<now, windowMs, tiers, argVars, storeVars, histVars, useRedis>>

(* the CleanupManager timer that rateGuard() starts for the memory store *)
MwSweep ==
    /\ ~useRedis
    /\ Cleanup

NextMw ==
    \/ \E d \in Deltas : Tick(d)
    \/ \E r \in Reqs, id \in Ids, source \in Sources, ct \in CustomTiers :
          MwCall(r, id, source, ct)
    \/ \E r \in Reqs : RedisExec(r)
    \/ \E r \in Reqs : RedisZAdd(r)
    \/ \E r \in Reqs : RedisExpire(r)
    \/ \E r \in Reqs : RedisFail(r)
    \/ \E r \in Reqs, cb \in Callbacks : MwResume(r, cb)
    \/ \E r \in Reqs : MwCatch(r)
    \/ MwSweep

SpecMw == InitMw /\ [][NextMw]_vars

(***************************************************************************)
(* SpecCfg: the backends behind rateGuard(options) for options that are    *)
(* out of range or left out.                                               *)
(***************************************************************************)
CfgOptions ==
    {[windowMs |-> 0 - 1000, tiers |-> [guest |-> 1, free |-> 2]],
     [windowMs |-> 0, tiers |-> [guest |-> 1, free |-> 2]],
     [windowMs |-> 1000, tiers |-> [guest |-> 0 - 1, free |-> 1]],
     [windowMs |-> 1000]}

InitCfg ==
    /\ fn = NoFn
    /\ useRedis = FALSE
    /\ \E opts \in CfgOptions : InitWith(opts)

SpecCfg == InitCfg /\ [][Next]_vars

(***************************************************************************)
(* SpecLocal: the middlewares that rateGuard() creates with the local      *)
(* backend in one process.  Every rateGuard() call makes a MemoryStore and *)
(* starts a CleanupManager on it.  The heap holds the Map objects, a store *)
(* is the address of its Map.  The calls of instance 1 are also made on a  *)
(* SlidingWindowLimiter (legacy) and on a MemoryStore that is never swept  *)
(* (plain).  Requests arrive until MaxTime; the clock runs on until every  *)
(* stored timestamp has expired.                                           *)
(***************************************************************************)
Insts == {1, 2}
MaxLocalCalls == 3

(* variant: the stores share one Map *)
MemoryStore_constructor_Shared(heap) ==
    IF DOMAIN heap # {} THEN [addr |-> 1, heap |-> heap]
    ELSE [addr |-> 1, heap |-> MapSet(heap, 1, EmptyMap)]

(* this.requests = new Map() *)
MemoryStore_constructor(heap) ==
    LET addr == Cardinality(DOMAIN heap) + 1
    IN  [addr |-> addr, heap |-> MapSet(heap, addr, EmptyMap)]

(* variant: start() sets no timer *)
CleanupManager_start_NoTimer(intervalId) == intervalId

(* intervalId after start(): FALSE is null, TRUE a running timer *)
CleanupManager_start(intervalId) == IF intervalId THEN intervalId ELSE TRUE

(* intervalId after stop(): null *)
CleanupManager_stop(intervalId) == IF intervalId THEN FALSE ELSE intervalId

(* variant: start() sets a timer also when one is running *)
CleanupManager_setInterval_Always(intervalId, active) == active + 1

(* the number of timers after start(): setInterval adds one unless a timer *)
(* is running                                                              *)
CleanupManager_setInterval(intervalId, active) ==
    IF intervalId THEN active ELSE active + 1

(* the number of timers after stop(): clearInterval removes the running    *)
(* one                                                                     *)
CleanupManager_clearInterval(intervalId, active) ==
    IF intervalId THEN active - 1 ELSE active

(* the last two calls after one more *)
LastCalls(calls, name) ==
    IF Len(calls) < 2 THEN Append(calls, name) ELSE <<calls[2], name>>

MemoryStore_reset(map) == EmptyMap

SlidingWindowLimiter_reset(map) == EmptyMap

(* the Map of instance i *)
MapOf(l, i) == l.heap[l.store[i]]

(* rateGuard() without a redisClient *)
Create(i) ==
    /\ i \notin DOMAIN loc.store
    /\ \A j \in Insts : j < i => j \in DOMAIN loc.store
    /\ LET c == MemoryStore_constructor(loc.heap)
       IN  loc' = [loc EXCEPT !.heap = c.heap,
                              !.store = MapSet(@, i, c.addr),
                              !.timer = MapSet(@, i, CleanupManager_start(FALSE)),
                              !.active = MapSet(@, i,
                                  CleanupManager_setInterval(FALSE, 0)),
                              !.calls = MapSet(@, i, <<"start">>),
                              !.op = [name |-> "create", inst |-> i]]
    /\ UNCHANGED <<now, windowMs, tiers, storeVars, histVars, mwVars, options, fn, conn>>

(* store.checkLimit(identityKey, limit) of instance i *)
LocalCheck(i, id, tier) ==
    /\ i \in DOMAIN loc.store
    /\ loc.n < MaxLocalCalls
    /\ now <= MaxTime
    /\ LET lim == getTierLimit(tier, tiers)
           m == MemoryStore_checkLimit(MapOf(loc, i), id, lim, now, windowMs)
           l == SlidingWindowLimiter_checkLimit(loc.legacy, id, lim, now,
                                                windowMs)
           q == MemoryStore_checkLimit(loc.plain, id, lim, now, windowMs)
           called == [loc EXCEPT !.heap = MapSet(@, loc.store[i], m.map),
                                 !.op = [name |-> "check", inst |-> i],
                                 !.n = @ + 1]
       IN  loc' = IF i = 1
                  THEN [called EXCEPT !.legacy = l.map, !.plain = q.map,
                                      !.res = m.res, !.resLegacy = l.res,
                                      !.resPlain = q.res]
                  ELSE called
    /\ UNCHANGED <<now, windowMs, tiers, storeVars, histVars, mwVars, options, fn, conn>>

(* the timer of instance i fires: this.limiter.cleanup() *)
LocalSweep(i) ==
    /\ i \in DOMAIN loc.timer /\ loc.timer[i]
    /\ LET swept == [loc EXCEPT
                        !.heap = MapSet(@, loc.store[i],
                                     MemoryStore_cleanup(MapOf(loc, i), now,
                                                         windowMs)),
                        !.op = [name |-> "cleanup", inst |-> i]]
       IN  loc' = IF i = 1
                  THEN [swept EXCEPT !.legacy =
                            SlidingWindowLimiter_cleanup(@, now, windowMs)]
                  ELSE swept
    /\ UNCHANGED <<now, windowMs, tiers, storeVars, histVars, mwVars, options, fn, conn>>

(* store.reset() of instance i *)
LocalReset(i) ==
    /\ i \in DOMAIN loc.store
    /\ LET cleared == [loc EXCEPT
                          !.heap = MapSet(@, loc.store[i],
                                          MemoryStore_reset(MapOf(loc, i))),
                          !.op = [name |-> "reset", inst |-> i]]
       IN  loc' = IF i = 1
                  THEN [cleared EXCEPT
                           !.legacy = SlidingWindowLimiter_reset(@),
                           !.plain = MemoryStore_reset(@)]
                  ELSE cleared
    /\ UNCHANGED <<now, windowMs, tiers, storeVars, histVars, mwVars, options, fn, conn>>

(* time passes *)
Wait(d) ==
    /\ now + d <= MaxTime + windowMs + 500
    /\ now' = now + d
    /\ loc' = [loc EXCEPT !.op = [name |-> "wait", inst |-> 0]]
    /\ UNCHANGED <<windowMs, tiers, storeVars, histVars, mwVars, options, fn, conn>>

LocalOptions == {[windowMs |-> 1000,
                  tiers |-> [guest |-> MaxLimit - 1, free |-> MaxLimit]]}

InitLocal ==
    /\ fn = NoFn
    /\ useRedis = FALSE
    /\ \E opts \in LocalOptions : InitWith(opts)

NextLocal ==
    \/ \E i \in Insts : Create(i)
    \/ \E i \in Insts, id \in Ids, tier \in TierNames : LocalCheck(i, id, tier)
    \/ \E i \in Insts : LocalSweep(i)
    \/ \E i \in Insts : LocalReset(i)
    \/ \E d \in Deltas : Wait(d)

SpecLocal == InitLocal /\ [][NextLocal]_vars

(* SpecSweep: a process with one middleware, which calls checkLimit only;  *)
(* the clock advances and the running timer fires                          *)
NextSweep ==
    \/ Create(1)
    \/ \E id \in Ids, tier \in TierNames : LocalCheck(1, id, tier)
    \/ LocalSweep(1)
    \/ \E d \in Deltas : Wait(d)

SpecSweep ==
    /\ InitLocal
    /\ [][NextSweep]_vars
    /\ WF_vars(\E d \in Deltas : Wait(d))
    /\ WF_vars(LocalSweep(1))

(***************************************************************************)
(* SpecTimer: a MemoryStore with a CleanupManager that its owner starts    *)
(* and stops; the store is checked and, while the timer runs, swept.       *)
(***************************************************************************)
(* new MemoryStore() and new CleanupManager(store, windowMs) *)
Construct(i) ==
    /\ i \notin DOMAIN loc.store
    /\ LET c == MemoryStore_constructor(loc.heap)
       IN  loc' = [loc EXCEPT !.heap = c.heap,
                              !.store = MapSet(@, i, c.addr),
                              !.timer = MapSet(@, i, FALSE),
                              !.active = MapSet(@, i, 0),
                              !.calls = MapSet(@, i, <<>>),
                              !.op = [name |-> "construct", inst |-> i]]
    /\ UNCHANGED <<now, windowMs, tiers, storeVars, histVars, mwVars, options,
                   fn, conn>>

(* cleanup.start() *)
Start(i) ==
    /\ i \in DOMAIN loc.timer
    /\ loc' = [loc EXCEPT
                  !.timer[i] = CleanupManager_start(@),
                  !.active[i] = CleanupManager_setInterval(loc.timer[i], @),
                  !.calls[i] = LastCalls(@, "start"),
                  !.op = [name |-> "start", inst |-> i]]
    /\ UNCHANGED <<now, windowMs, tiers, storeVars, histVars, mwVars, options,
                   fn, conn>>

(* cleanup.stop() *)
Stop(i) ==
    /\ i \in DOMAIN loc.timer
    /\ loc' = [loc EXCEPT
                  !.timer[i] = CleanupManager_stop(@),
                  !.active[i] = CleanupManager_clearInterval(loc.timer[i], @),
                  !.calls[i] = LastCalls(@, "stop"),
                  !.op = [name |-> "stop", inst |-> i]]
    /\ UNCHANGED <<now, windowMs, tiers, storeVars, histVars, mwVars, options,
                   fn, conn>>

NextTimer ==
    \/ Construct(1)
    \/ Start(1)
    \/ Stop(1)
    \/ \E id \in Ids, tier \in TierNames : LocalCheck(1, id, tier)
    \/ LocalSweep(1)
    \/ \E d \in Deltas : Wait(d)

SpecTimer == InitLocal /\ [][NextTimer]_vars

(***************************************************************************)
(* SpecOut: the middleware of SpecMw in front of a next() that may throw   *)
(* and a response object that may throw.                                   *)
(***************************************************************************)
InitOut ==
    /\ fn = NoFn
    /\ useRedis \in BOOLEAN
    /\ \E opts \in LocalOptions : InitWith(opts)

NextOut ==
    \/ \E d \in Deltas : Tick(d)
    \/ \E r \in Reqs, id \in Ids, source \in Sources, ct \in CustomTiers :
          MwCall(r, id, source, ct)
    \/ \E r \in Reqs : RedisExec(r)
    \/ \E r \in Reqs : RedisZAdd(r)
    \/ \E r \in Reqs : RedisExpire(r)
    \/ \E r \in Reqs : RedisFail(r)
    \/ \E r \in Reqs, cb \in Callbacks, nx \in NextCalls,
             rs \in ResponseFaults : MwOutcome(r, cb, nx, rs)
    \/ \E r \in Reqs : MwCatch(r)
    \/ MwSweep

SpecOut == InitOut /\ [][NextOut]_vars

(***************************************************************************)
(* SpecInit: rateGuard({ redisClient }) constructs the RedisStore, whose   *)
(* constructor starts the connection check, and returns the middleware,    *)
(* which then handles requests.                                            *)
(***************************************************************************)
(* the clients that may be passed: connected, open, or neither *)
Clients == {[isReady |-> a, isOpen |-> b] : a, b \in BOOLEAN}

(* _checkConnection() up to its first await: the client is ready or open,  *)
(* or ping() is sent and awaited                                           *)
RedisStore_checkConnection(c) ==
    IF c.client.isReady THEN [c EXCEPT !.isConnected = TRUE, !.check = "done"]
    ELSE IF c.client.isOpen
         THEN [c EXCEPT !.isConnected = TRUE, !.check = "done"]
         ELSE [c EXCEPT !.check = "ping"]

(* new RedisStore(redisClient, options): it throws for a missing client    *)
(* (one that has no properties); the promise of _checkConnection() is      *)
(* dropped                                                                 *)
RedisStore_constructor(c, redisClient) ==
    IF DOMAIN redisClient = {} THEN [c EXCEPT !.step = "threw"]
    ELSE RedisStore_checkConnection(
             [c EXCEPT !.client = redisClient, !.isConnected = FALSE,
                       !.step = "constructed"])

(* rateGuard(options) with options.redisClient set: the store is           *)
(* constructed inside try/catch, what the constructor throws is thrown on, *)
(* else the middleware is returned                                         *)
RateGuard(redisClient) ==
    /\ conn.step = ""
    /\ LET c == RedisStore_constructor(conn, redisClient)
       IN  conn' = IF c.step = "threw" THEN c
                   ELSE [c EXCEPT !.step = "returned"]
    /\ UNCHANGED <<now, windowMs, tiers, storeVars, histVars, mwVars, options,
                   fn, loc>>

(* the awaited ping() is answered *)
PingReply ==
    /\ conn.check = "ping"
    /\ conn' = [conn EXCEPT !.isConnected = TRUE, !.check = "done"]
    /\ UNCHANGED <<now, windowMs, tiers, storeVars, histVars, mwVars, options,
                   fn, loc>>

(* the awaited ping() fails: the catch of _checkConnection() throws, which *)
(* rejects the promise that the constructor dropped                        *)
PingFail ==
    /\ conn.check = "ping"
    /\ conn' = [conn EXCEPT !.isConnected = FALSE, !.check = "failed",
                            !.rejections = @ + 1]
    /\ UNCHANGED <<now, windowMs, tiers, storeVars, histVars, mwVars, options,
                   fn, loc>>

(* the middleware that rateGuard() returned is called with a request *)
Middleware(r, id, source, customTier) ==
    /\ conn.step = "returned"
    /\ MwCall(r, id, source, customTier)

InitInit ==
    /\ fn = NoFn
    /\ useRedis = TRUE
    /\ \E opts \in LocalOptions : InitWith(opts)

NextInit ==
    \/ \E c \in Clients : RateGuard(c)
    \/ PingReply
    \/ PingFail
    \/ \E r \in Reqs, id \in Ids, source \in Sources, ct \in CustomTiers :
          Middleware(r, id, source, ct)
    \/ \E r \in Reqs : RedisExec(r)
    \/ \E r \in Reqs : RedisZAdd(r)
    \/ \E r \in Reqs : RedisExpire(r)
    \/ \E r \in Reqs : RedisFail(r)
    \/ \E r \in Reqs, cb \in Callbacks : MwResume(r, cb)
    \/ \E r \in Reqs : MwCatch(r)

SpecInit == InitInit /\ [][NextInit]_vars

(***************************************************************************)
(* SpecResolve: one request taken through the steps 1 to 3 of the          *)
(* middleware: identity, tier, limit.                                      *)
(***************************************************************************)
Requests ==
    {("authorization" :> a) @@ ("Authorization" :> b) @@ ("x-user-id" :> u)
        @@ ("x-forwarded-for" :> f) @@ ("x-real-ip" :> x) @@ ("ip" :> i)
        @@ ("remoteAddress" :> c) :
        a \in {<<>>, <<"Bearer ">>, <<"Bearer ", "t1">>, <<"t1">>},
        b \in {<<>>, <<"t2">>},
        u \in {<<>>, <<"t1">>, <<"u1">>},
        f \in {<<>>, <<" ", "10.0.0.1", " ", ",", "10.0.0.2">>,
                <<" ", ",", "10.0.0.2">>, <<"10.0.0.2">>},
        x \in {<<>>, <<"10.0.0.1">>},
        i \in {<<>>, <<"10.0.0.3">>},
        c \in {<<>>, <<"10.0.0.4">>}}

ResolveTables == {[guest |-> 1, free |-> 2], [guest |-> 1]}

ResolveOptions ==
    LET withTiers == {[tiers |-> tb] : tb \in ResolveTables} \cup {EmptyMap}
        withResolver == {o @@ ("resolveTier" :> k) :
                            o \in withTiers, k \in Resolvers \ {"none"}}
                        \cup withTiers
    IN  withResolver \cup {o @@ ("keyGenerator" :> "function") :
                              o \in withResolver}

(* what config.keyGenerator(req) and config.resolveTier(req) may return *)
GeneratedKeys == {<<"k1">>}
ResolvedTiers == {"", "guest", "free", "pro", "constructor"}

InitResolve ==
    /\ useRedis = FALSE
    /\ \E opts \in ResolveOptions : InitWith(opts)
    /\ \E r \in Requests : fn = [NoFn EXCEPT !.req = r, !.step = "new"]

(* step 1 *)
ResolveIdentity(generated) ==
    /\ fn.step = "new"
    /\ LET identity == IF rateGuard_config(options).keyGenerator
                       THEN Identity(generated, "custom")
                       ELSE resolveIdentity(fn.req)
       IN  fn' = [fn EXCEPT !.key = identity.key, !.source = identity.source,
                            !.step = "identity"]
    /\ UNCHANGED <<now, windowMs, tiers, storeVars, histVars, mwVars, options, loc, conn>>

(* step 2; customTier is what the resolver returns if it is called *)
ResolveTier(customTier) ==
    /\ fn.step = "identity"
    /\ LET customResolver == rateGuard_config(options).resolveTier
       IN  /\ customResolver # "function" => customTier = ""
           /\ fn' = [fn EXCEPT !.custom = customTier,
                               !.tier = resolveTier(fn.source, customResolver,
                                                    customTier),
                               !.step = "tier"]
    /\ UNCHANGED <<now, windowMs, tiers, storeVars, histVars, mwVars, options, loc, conn>>

(* step 3 *)
GetTierLimit ==
    /\ fn.step = "tier"
    /\ fn' = [fn EXCEPT !.limit = getTierLimit(fn.tier, tiers),
                        !.step = "limit"]
    /\ UNCHANGED <<now, windowMs, tiers, storeVars, histVars, mwVars, options, loc, conn>>

NextResolve ==
    \/ \E k \in GeneratedKeys : ResolveIdentity(k)
    \/ \E ct \in ResolvedTiers : ResolveTier(ct)
    \/ GetTierLimit

SpecResolve == InitResolve /\ [][NextResolve]_vars

(***************************************************************************)
(* SpecTtl: the shared backend alone, one checkLimit call at a time, for   *)
(* window lengths that are and are not whole seconds; the clock runs on    *)
(* until the server drops the keys.                                        *)
(***************************************************************************)
TtlOptions == {[windowMs |-> w,
                tiers |-> [guest |-> MaxLimit - 1, free |-> MaxLimit]] :
                  w \in {500, 1000, 1500}}

InitTtl ==
    /\ fn = NoFn
    /\ useRedis = TRUE
    /\ \E opts \in TtlOptions : InitWith(opts)

(* store.checkLimit(identityKey, limit, tier) of the RedisStore *)
RedisCheckLimit(id, tier) ==
    /\ ncalls < MaxCalls
    /\ now <= MaxTime
    /\ LET lim == getTierLimit(tier, tiers)
           r == RedisStore_checkLimit(db, id, lim, tier, now, windowMs)
       IN  /\ db' = r.db
           /\ ncalls' = ncalls + 1
           /\ last' = [NoCall EXCEPT !.id = id, !.tier = tier, !.lim = lim,
                                     !.t = now, !.r = r.res]
    /\ UNCHANGED <<now, windowMs, tiers, argVars, limiter, requests, admM,
                   admR, limsM, burstM, burstR, denyM, denyR, mwVars>>

NextTtl ==
    \/ \E d \in Deltas : Wait(d)
    \/ \E id \in Ids, tier \in TierNames : RedisCheckLimit(id, tier)
    \/ RedisKeyExpiry

SpecTtl == InitTtl /\ [][NextTtl]_vars

(***************************************************************************)
(* Properties of the backends under one call at a time (Spec).             *)
(***************************************************************************)
IsFinite(x) == x \notin {Infinity, NaN, Undefined}

Stored(map, id) == MapGet(map, id, <<>>)

Members(p) == MapGet(db.zsets, PairKey(p), {})

(* the keys a command sent at time t finds *)
Live(d, t) == PurgeExpired(d, t)

(* C1: when every call on a key used the same finite limit L, the key      *)
(* holds at most L timestamps after every call, and at most L calls were   *)
(* allowed inside the window that ends now, in MemoryStore and in          *)
(* RedisStore.                                                             *)
C1_CountWithinLimit ==
    /\ \A id \in Ids : \A L \in Limits :
          (IsFinite(L) /\ limsM[id] = {L}) =>
              /\ Len(Stored(requests, id)) <= L
              /\ Len(admM[id]) <= L
    /\ \A p \in Pairs :
          LET L == getTierLimit(p[1], tiers)
          IN  IsFinite(L) =>
                 /\ Cardinality(Members(p)) <= L
                 /\ Len(admR[p]) <= L

(* a key is full and the last call on it was denied by both backends *)
C1_Witness ==
    /\ ncalls > 0
    /\ IsFinite(last.lim) /\ last.lim >= 1
    /\ limsM[last.id] = {last.lim}
    /\ ~last.m.allowed /\ ~last.r.allowed
    /\ Len(Stored(requests, last.id)) = last.lim
    /\ Cardinality(Members(<<last.tier, last.id>>)) = last.lim

(* C4: on a fresh key and with a finite limit N >= 1, the k-th call of a   *)
(* burst inside one window is allowed with remaining = N - k for k <= N and *)
(* denied for k > N.                                                       *)
C4_QuotaBoundary ==
    ncalls > 0 =>
        LET N == last.lim
            bm == burstM[last.id]
            br == burstR[<<last.tier, last.id>>]
        IN  (IsFinite(N) /\ N >= 1) =>
               /\ (bm.n > 0 /\ bm.n <= N) =>
                     /\ last.l.allowed /\ last.l.remaining = N - bm.n
                     /\ last.m.allowed /\ last.m.remaining = N - bm.n
               /\ (bm.n > N) => (~last.l.allowed /\ ~last.m.allowed)
               /\ (br.n > 0 /\ br.n <= N) =>
                     (last.r.allowed /\ last.r.remaining = N - br.n)
               /\ (br.n > N) => ~last.r.allowed

(* the (N+1)-th call of a burst, denied, after the N-th left remaining 0 *)
C4_Witness ==
    /\ ncalls > 0
    /\ IsFinite(last.lim) /\ last.lim >= 1
    /\ burstM[last.id].n = last.lim + 1
    /\ burstR[<<last.tier, last.id>>].n = last.lim + 1
    /\ ~last.l.allowed /\ ~last.m.allowed /\ ~last.r.allowed

(* C5: a key that was denied under limit L is allowed again by the first   *)
(* call made once the oldest counted request has left the window; with     *)
(* limit 1 and windowMs 1000 the call at 500 that follows a call at 0 is   *)
(* denied with retryAfter 1 and a call at 1001 is allowed.                 *)
C5_WindowRollover ==
    /\ ncalls > 0 =>
          LET d == last.prevDeny
          IN  (/\ d.on
               /\ d.lim = last.lim
               /\ limsM[last.id] = {last.lim}
               /\ last.t >= d.oldest + windowMs) => last.m.allowed
    /\ \A id \in Ids :
          LET e == denyM[id]
          IN  (/\ e.on
               /\ windowMs = 1000 /\ e.lim = 1
               /\ e.oldest = 0 /\ e.at = 500) => e.retryAfter = 1
    /\ (/\ ncalls > 0
        /\ windowMs = 1000 /\ last.lim = 1 /\ limsM[last.id] = {1}
        /\ last.t = 500 /\ Stored(requests, last.id) = <<0>>)
           => ~last.m.allowed

(* the call at 1001 after the denial at 500 of a key admitted at 0 *)
C5_Witness ==
    /\ ncalls > 0
    /\ windowMs = 1000 /\ last.lim = 1 /\ last.t = 1001
    /\ last.prevDeny.on /\ last.prevDeny.oldest = 0
    /\ last.prevDeny.at = 500 /\ last.prevDeny.retryAfter = 1
    /\ last.m.allowed

(* C6: a checkLimit call for one identity key leaves the stored state of   *)
(* every other identity key as it was, in the three backends.              *)
C6_IdentityIsolation ==
    [][ncalls' = ncalls + 1 =>
          \A b \in Ids \ {last'.id} :
             /\ (b \in DOMAIN requests') = (b \in DOMAIN requests)
             /\ Stored(requests', b) = Stored(requests, b)
             /\ (b \in DOMAIN limiter') = (b \in DOMAIN limiter)
             /\ Stored(limiter', b) = Stored(limiter, b)
             /\ \A t \in TierNames :
                   LET k == RedisStore_getKey(b, t)
                   IN  /\ MapGet(Live(db', now').zsets, k, {})
                             = MapGet(Live(db, now).zsets, k, {})
                       /\ MapGet(Live(db', now').ttl, k, 0)
                             = MapGet(Live(db, now).ttl, k, 0)
      ]_vars

(* one identity is exhausted while another one still holds its own count *)
C6_Witness ==
    /\ ncalls > 0
    /\ IsFinite(last.lim) /\ last.lim >= 1
    /\ ~last.m.allowed /\ ~last.r.allowed
    /\ \E b \in Ids \ {last.id} :
          /\ Len(Stored(requests, b)) > 0
          /\ Len(Stored(requests, b)) < last.lim
          /\ Members(<<last.tier, b>>) # {}

(* C7: the local backend and the shared backend return the same allowed    *)
(* and current for the same sequence of calls.                             *)
C7_BackendEquivalence ==
    ncalls > 0 =>
        /\ last.m.allowed = last.r.allowed
        /\ last.m.current = last.r.current

(* C8: a call made under one tier leaves the window state of the same      *)
(* identity key under every other tier as it was.                          *)
C8_TierIsolation ==
    [][ncalls' = ncalls + 1 =>
          \A t \in TierNames \ {last'.tier} :
             /\ Stored(requests', last'.id) = Stored(requests, last'.id)
             /\ MapGet(Live(db', now').zsets,
                       RedisStore_getKey(last'.id, t), {})
                   = MapGet(Live(db, now).zsets,
                            RedisStore_getKey(last'.id, t), {})
      ]_vars

(* C9: with limit Infinity every call is allowed and remaining is Infinity. *)
C9_UnboundedTier ==
    (ncalls > 0 /\ last.lim = Infinity) =>
        /\ last.l.allowed /\ last.l.remaining = Infinity
        /\ last.m.allowed /\ last.m.remaining = Infinity
        /\ last.r.allowed /\ last.r.remaining = Infinity

(* more calls inside one window than any finite limit of the table *)
C9_Witness ==
    /\ ncalls > 0 /\ last.lim = Infinity
    /\ last.m.allowed /\ last.m.current > MaxLimit
    /\ last.r.allowed /\ last.r.current > MaxLimit

(* C10: a denied decision has remaining = 0 and an allowed decision has    *)
(* retryAfter = 0, in every backend.                                       *)
C10_DecisionShape ==
    ncalls > 0 =>
        \A res \in {last.l, last.m, last.r} :
            /\ ~res.allowed => res.remaining = 0
            /\ res.allowed => res.retryAfter = 0

(* a denial on a key that holds counted requests *)
C10_Witness ==
    /\ ncalls > 0
    /\ ~last.m.allowed /\ last.m.current > 0 /\ last.m.retryAfter > 0
    /\ ~last.r.allowed /\ last.r.current > 0 /\ last.r.retryAfter > 0

(***************************************************************************)
(* Properties of the middleware with requests in flight (SpecMw).          *)
(***************************************************************************)
Called(id) == {r \in Reqs : pc[r] # "new" /\ rq[r].id = id}

Admitted(id) == {r \in Called(id) : pc[r] \in {"resume", "next"}
                                     /\ rq[r].res.allowed}

(* C2: with the Redis backend the members of a key's sorted set that lie   *)
(* inside the window never outnumber the limit of the key's tier, whatever *)
(* the interleaving of the requests' exec, zAdd and expire steps.          *)
C2_NoDoubleAdmit ==
    useRedis =>
        \A p \in Pairs :
            LET L == getTierLimit(p[1], tiers)
            IN  IsFinite(L) =>
                   Cardinality({m \in Members(p) :
                                   m.score > now - windowMs}) <= L

(* C3: with the memory backend, among the requests in flight for one       *)
(* identity key under one finite limit L, those allowed inside the current *)
(* window are at most L, the key never holds more than L timestamps, and   *)
(* two requests allowed at the same instant saw different counts.          *)
C3_LocalAtomic ==
    ~useRedis =>
        \A id \in Ids : \A L \in Limits :
            (IsFinite(L) /\ \A r \in Called(id) : rq[r].lim = L) =>
                /\ Len(Stored(requests, id)) <= L
                /\ Cardinality({r \in Admitted(id) :
                                   rq[r].t > now - windowMs}) <= L
                /\ \A r1, r2 \in Admitted(id) :
                      (r1 # r2 /\ rq[r1].t = rq[r2].t) =>
                          rq[r1].res.current # rq[r2].res.current

(* all requests are of one identity and in flight at the same instant, the *)
(* limit is reached by some of them and the others are denied              *)
C3_Witness ==
    /\ ~useRedis
    /\ \E id \in Ids : \E L \in 1..MaxLimit :
          /\ Called(id) = Reqs
          /\ \A r \in Reqs : pc[r] = "resume" /\ rq[r].lim = L /\ rq[r].t = now
          /\ Cardinality(Admitted(id)) = L
          /\ \E r \in Reqs : ~rq[r].res.allowed

(***************************************************************************)
(* Retry delay (Spec).                                                     *)
(***************************************************************************)
(* C11: every denied decision carries a retryAfter that is a whole number  *)
(* of seconds >= 1, equal to ceil((oldest + windowMs - now) / 1000) when   *)
(* the key holds a timestamp, for every limit of the tier table, 0         *)
(* included.                                                               *)
C11_RetryAfterPositive ==
    ncalls > 0 =>
        /\ \A res \in {last.l, last.m, last.r} :
              ~res.allowed => (IsFinite(res.retryAfter) /\ res.retryAfter >= 1)
        /\ (~last.m.allowed /\ Len(Stored(requests, last.id)) > 0) =>
              last.m.retryAfter =
                 CeilSeconds(Stored(requests, last.id)[1] + windowMs - last.t)

(* C12: after a denial at time t with retryAfter r, and no admission of    *)
(* the key in between, a check of the same key and limit at t + 1000 * r   *)
(* is allowed.                                                             *)
C12_RetryNotUnderPromised ==
    ncalls > 0 =>
        /\ LET d == last.prevDeny
           IN  (/\ d.den /\ d.lim = last.lim /\ limsM[last.id] = {last.lim}
                /\ IsFinite(d.retryAfter)
                /\ last.t = d.at + 1000 * d.retryAfter) => last.m.allowed
        /\ LET d == last.prevDenyR
           IN  (/\ d.den /\ d.lim = last.lim
                /\ IsFinite(d.retryAfter)
                /\ last.t = d.at + 1000 * d.retryAfter) => last.r.allowed


(* C13: a store command of RedisStore.checkLimit that fails ends the call  *)
(* with an error: the request holds no decision, neither allowed nor       *)
(* denied, and it is the catch of the middleware that goes on              *)
C13_StoreErrorNoDecision ==
    \A r \in Reqs :
        rq[r].failedAt # "" =>
            /\ rq[r].out = "error"
            /\ rq[r].res = NoDecision
            /\ pc[r] \in {"threw", "next"}

C13_Witness ==
    \E r \in Reqs : rq[r].failedAt = "zadd" /\ pc[r] = "threw"

(* C14: a request whose check ended with an error is forwarded with next() *)
(* only if fail-open was configured                                        *)
C14_FailOpenOnlyIfConfigured ==
    \A r \in Reqs :
        (rq[r].out = "error" /\ pc[r] = "next") => config_failOpen

(* C16: a request whose decision is a denial ends with the 429 response    *)
(* and its Retry-After header, and next() is not called, whatever          *)
(* onLimitReached does                                                     *)
C16_DeniedGets429 ==
    \A r \in Reqs :
        (rq[r].out = "decision" /\ ~rq[r].res.allowed
            /\ pc[r] \in {"next", "429"}) =>
                /\ pc[r] = "429"
                /\ rq[r].hdr.retryAfter = JsString(rq[r].res.retryAfter)

(* C17: when a request with a decision reaches next() or the 429, the      *)
(* three RateLimit headers carry the limit, the remaining count and the    *)
(* reset time of that decision; Retry-After is set exactly on the 429      *)
(* path; a request whose check threw carries no header                     *)
C17_HeadersFromDecision ==
    \A r \in Reqs :
        /\ (pc[r] \in {"next", "429"} /\ rq[r].out = "decision") =>
              /\ rq[r].hdr.limit = JsString(rq[r].lim)
              /\ rq[r].hdr.remaining = JsString(rq[r].res.remaining)
              /\ rq[r].hdr.reset = JsString(rq[r].res.resetTime)
              /\ (rq[r].hdr.retryAfter # Unset) <=> (pc[r] = "429")
              /\ pc[r] = "429" =>
                    rq[r].hdr.retryAfter = JsString(rq[r].res.retryAfter)
        /\ (pc[r] \notin {"next", "429"} \/ rq[r].out # "decision") =>
              rq[r].hdr = NoHeaders

C17_Witness ==
    \E r, q \in Reqs :
        /\ pc[r] = "next" /\ rq[r].res.allowed
        /\ rq[r].hdr.remaining = DecStr(0) /\ rq[r].hdr.limit = DecStr(1)
        /\ pc[q] = "429" /\ rq[q].hdr.retryAfter = DecStr(1)


(* the options rateGuard() is meant to accept: a positive window and       *)
(* limits that are non-negative integers or Infinity                       *)
ValidOptions(opts) ==
    /\ "windowMs" \in DOMAIN opts => (opts.windowMs > 0 /\ IsFinite(opts.windowMs))
    /\ "tiers" \in DOMAIN opts =>
          \A name \in DOMAIN opts.tiers :
              opts.tiers[name] >= 0

(* C15: no request is checked under a configuration that has a             *)
(* non-positive windowMs or a limit that is not a non-negative integer or  *)
(* Infinity: rateGuard() refuses such options                              *)
C15_InvalidConfigRejected ==
    ncalls > 0 => ValidOptions(options)

(* C18: the tier of a request is the name a configured resolver function   *)
(* returns when that name is not empty; otherwise 'free' for the sources   *)
(* token and userId and 'guest' for every other source                     *)
C18_TierResolution ==
    fn.step \in {"tier", "limit"} =>
        LET config == rateGuard_config(options)
        IN  /\ (config.resolveTier = "function" /\ fn.custom # "") =>
                  fn.tier = fn.custom
            /\ (config.resolveTier # "function" \/ fn.custom = "") =>
                  /\ fn.source \in {"token", "userId"} => fn.tier = "free"
                  /\ fn.source \in {"ip", "custom"} => fn.tier = "guest"
                  /\ fn.source \in {"token", "userId", "ip", "custom"}

C18_Witness ==
    /\ fn.step = "tier" /\ fn.source = "custom" /\ fn.custom = "pro"
    /\ fn.tier = "pro"

(* C19: the limit of a tier name is the table's own entry for the name     *)
(* when the table has one and the table's 'free' entry for every other     *)
(* name                                                                    *)
C19_TierFallback ==
    fn.step = "limit" =>
        fn.limit = IF fn.tier \in DOMAIN tiers THEN tiers[fn.tier]
                   ELSE IF "free" \in DOMAIN tiers THEN tiers.free
                   ELSE Undefined

(* the credential of the request: its Authorization value without a        *)
(* leading 'Bearer '                                                       *)
Credential(req) ==
    LET h == IF req["authorization"] # <<>> THEN req["authorization"]
             ELSE req["Authorization"]
    IN  IF h # <<>> /\ h[1] = "Bearer " THEN Tail(h) ELSE h

(* the network address of the request: the first of the first              *)
(* x-forwarded-for entry, x-real-ip, the peer address and 'unknown' that   *)
(* is not empty                                                            *)
Address(req) ==
    LET f == req["x-forwarded-for"]
        first == SelectSeq(IF \E n \in 1..Len(f) : f[n] = ","
                           THEN SubSeq(f, 1, (CHOOSE n \in 1..Len(f) :
                                    /\ f[n] = ","
                                    /\ \A k \in 1..(n - 1) : f[k] # ",") - 1)
                           ELSE f,
                           LAMBDA piece : piece # " ")
    IN  IF first # <<>> THEN first
        ELSE IF req["x-real-ip"] # <<>> THEN req["x-real-ip"]
        ELSE IF req["ip"] # <<>> THEN req["ip"]
        ELSE IF req["remoteAddress"] # <<>> THEN req["remoteAddress"]
        ELSE <<"unknown">>

HasAuthorization(req) ==
    req["authorization"] # <<>> \/ req["Authorization"] # <<>>

Resolved == fn.step # "new" /\ ~rateGuard_config(options).keyGenerator

(* C20 as stated: a request with a non-empty Authorization value has       *)
(* source 'token'                                                          *)
C20_AuthorizationGivesToken ==
    (Resolved /\ HasAuthorization(fn.req)) => fn.source = "token"

(* C20 amended: the first of credential, x-user-id and network address     *)
(* that is not empty gives the source and, hashed, the key                 *)
C20_PriorityChain ==
    Resolved =>
        LET req == fn.req
        IN  /\ Credential(req) # <<>> =>
                  fn.source = "token" /\ fn.key = hashValue(Credential(req))
            /\ (Credential(req) = <<>> /\ req["x-user-id"] # <<>>) =>
                  fn.source = "userId" /\ fn.key = hashValue(req["x-user-id"])
            /\ (Credential(req) = <<>> /\ req["x-user-id"] = <<>>) =>
                  fn.source = "ip" /\ fn.key = hashValue(Address(req))
            /\ fn.source \in {"token", "userId", "ip"}
            /\ fn.key # <<>>

C20_Witness ==
    /\ Resolved
    /\ fn.req["authorization"] = <<"Bearer ">>
    /\ fn.req["x-user-id"] = <<>>
    /\ fn.req["x-forwarded-for"] = <<" ", ",", "10.0.0.2">>
    /\ fn.req["x-real-ip"] = <<"10.0.0.1">>
    /\ fn.source = "ip"
    /\ fn.key = <<"sha256", "10.0.0.1">>

(* the timestamps of a key that a call at time t counts *)
Pruned(map, id, t, w) == SelectSeq(Stored(map, id), LAMBDA ts : ts > t - w)

(* the members of a key that a call at time t counts *)
PrunedMembers(d, key, t, w) ==
    {m \in MapGet(Live(d, t).zsets, key, {}) : m.score > t - w}

(* C24 (in the form a finite run refutes): once no request is in flight,   *)
(* every key of the shared store that holds a member has a time-to-live,   *)
(* also when a check failed right after its zAdd                           *)
C24_MembersHaveTtl ==
    (\A r \in Reqs : pc[r] \in {"new", "next", "429"}) =>
        \A k \in DOMAIN db.zsets : db.zsets[k] # {} => k \in DOMAIN db.ttl

(* C27: a denied call stores the pruned sequence of the key with nothing   *)
(* appended; in the shared store it leaves the pruned members, adds none   *)
(* and sets no time-to-live                                                *)
C27_DenyAddsNothing ==
    [][ncalls' = ncalls + 1 =>
          LET c == last'
              key == RedisStore_getKey(c.id, c.tier)
          IN  /\ ~c.m.allowed =>
                    /\ c.id \in DOMAIN requests'
                    /\ requests'[c.id] = Pruned(requests, c.id, c.t, windowMs)
              /\ ~c.l.allowed =>
                    /\ c.id \in DOMAIN limiter'
                    /\ limiter'[c.id] = Pruned(limiter, c.id, c.t, windowMs)
              /\ ~c.r.allowed =>
                    /\ MapGet(db'.zsets, key, {})
                          = PrunedMembers(db, key, c.t, windowMs)
                    /\ key \in DOMAIN db'.ttl =>
                          (key \in DOMAIN db.ttl /\ db'.ttl[key] = db.ttl[key])
      ]_vars

(* a denial that leaves the one live timestamp of its key as it is *)
C27_Witness ==
    /\ ncalls > 0
    /\ ~last.m.allowed /\ ~last.r.allowed
    /\ last.lim = 1 /\ last.t = 1000
    /\ Stored(requests, last.id) = <<500>>
    /\ last.m.current = 1 /\ last.r.current = 1

(* C28: an allowed call under a finite limit appends one timestamp equal   *)
(* to its time to the pruned sequence of the key and returns current =     *)
(* pruned count + 1 and remaining = limit - current, with                  *)
(* 0 <= remaining < limit, in the three backends                           *)
C28_AllowAppendsOne ==
    [][ncalls' = ncalls + 1 =>
          LET c == last'
              key == RedisStore_getKey(c.id, c.tier)
              before == PrunedMembers(db, key, c.t, windowMs)
              after == MapGet(db'.zsets, key, {})
              shape(res, n) ==
                  /\ res.current = n + 1
                  /\ res.remaining = c.lim - res.current
                  /\ 0 <= res.remaining /\ res.remaining < c.lim
          IN  IsFinite(c.lim) =>
                /\ c.m.allowed =>
                      /\ requests'[c.id] =
                            Append(Pruned(requests, c.id, c.t, windowMs), c.t)
                      /\ shape(c.m, Len(Pruned(requests, c.id, c.t, windowMs)))
                /\ c.l.allowed =>
                      /\ limiter'[c.id] =
                            Append(Pruned(limiter, c.id, c.t, windowMs), c.t)
                      /\ shape(c.l, Len(Pruned(limiter, c.id, c.t, windowMs)))
                /\ c.r.allowed =>
                      /\ before \subseteq after
                      /\ Cardinality(after) = Cardinality(before) + 1
                      /\ \A m \in after \ before :
                            m.score = c.t /\ parseInt(SplitFirst(m.value)) = c.t
                      /\ shape(c.r, Cardinality(before))
      ]_vars

(* the second admission of a key under limit 2, after an expired one *)
C28_Witness ==
    /\ ncalls >= 3
    /\ last.lim = 2 /\ last.t >= 1000
    /\ last.m.allowed /\ last.r.allowed
    /\ last.m.current = 2 /\ last.m.remaining = 0
    /\ last.r.current = 2 /\ last.r.remaining = 0
    /\ Len(Stored(requests, last.id)) = 2

(* C29: right after a call at time now on a key, every timestamp stored    *)
(* for the key is greater than now - windowMs, in the three backends       *)
C29_HalfOpenWindow ==
    (ncalls > 0 /\ last.t = now) =>
        /\ \A n \in 1..Len(Stored(requests, last.id)) :
              Stored(requests, last.id)[n] > now - windowMs
        /\ \A n \in 1..Len(Stored(limiter, last.id)) :
              Stored(limiter, last.id)[n] > now - windowMs
        /\ \A m \in Members(<<last.tier, last.id>>) : m.score > now - windowMs

(* a call exactly windowMs after the only admission of its key, which it   *)
(* no longer counts                                                        *)
C29_Witness ==
    /\ ncalls > 1 /\ last.t = now
    /\ last.lim = 1
    /\ last.m.allowed /\ last.r.allowed
    /\ last.m.current = 1 /\ last.r.current = 1
    /\ admM[last.id] = <<now>>
    /\ \E p \in Pairs : p[2] = last.id /\ p[1] = last.tier /\ admR[p] = <<now>>
    /\ now = windowMs

(* C30: the resetTime of a call is ceil((oldest + windowMs) / 1000) for    *)
(* the oldest timestamp the key holds after the call, and it is not        *)
(* earlier than the time of the call, in the three backends                *)
C30_ResetTime ==
    [][ncalls' = ncalls + 1 =>
          LET c == last'
              after == MapGet(db'.zsets, RedisStore_getKey(c.id, c.tier), {})
              oldestScore == CHOOSE x \in {m.score : m \in after} :
                                \A m \in after : x <= m.score
          IN  /\ Len(Stored(requests', c.id)) > 0 =>
                    c.m.resetTime =
                        CeilSeconds(Stored(requests', c.id)[1] + windowMs)
              /\ Len(Stored(limiter', c.id)) > 0 =>
                    c.l.resetTime =
                        CeilSeconds(Stored(limiter', c.id)[1] + windowMs)
              /\ after # {} =>
                    c.r.resetTime = CeilSeconds(oldestScore + windowMs)
              /\ \A res \in {c.m, c.l, c.r} : 1000 * res.resetTime >= c.t
      ]_vars

(* a call whose key holds an older timestamp: the reset is the older one's *)
C30_Witness ==
    /\ ncalls > 1
    /\ last.t = 501
    /\ Stored(requests, last.id) = <<0, 501>>
    /\ last.m.resetTime = 1 /\ last.r.resetTime = 1
    /\ last.m.allowed /\ last.r.allowed

(* instance i holds the key *)
HasKey(i, id) == i \in DOMAIN loc.store /\ id \in DOMAIN MapOf(loc, i)

(* C21: right after a sweep of a store every key it still holds has a      *)
(* sequence that is not empty and whose timestamps are all greater than    *)
(* now - windowMs                                                          *)
C21_SweepLeavesLiveKeys ==
    loc.op.name = "cleanup" =>
        \A map \in {MapOf(loc, loc.op.inst)}
                      \cup (IF loc.op.inst = 1 THEN {loc.legacy} ELSE {}) :
            \A k \in DOMAIN map :
                /\ Len(map[k]) > 0
                /\ \A n \in 1..Len(map[k]) : map[k][n] > now - windowMs

(* a sweep that deleted the expired key a and kept the live key b *)
C21_Witness ==
    /\ loc.op = [name |-> "cleanup", inst |-> 1]
    /\ "a" \in DOMAIN loc.plain /\ "b" \in DOMAIN loc.plain
    /\ DOMAIN MapOf(loc, 1) = {"b"}
    /\ now >= windowMs

(* C22: every decision of a store that is swept at arbitrary moments is    *)
(* the decision of a store that is given the same calls and never swept    *)
C22_SweepDecisionNeutral ==
    loc.res = loc.resPlain

(* a check on a store from which a sweep has removed a key *)
C22_Witness ==
    /\ loc.op = [name |-> "check", inst |-> 1]
    /\ loc.res.allowed /\ loc.res.current = 2
    /\ DOMAIN MapOf(loc, 1) # DOMAIN loc.plain

(* C23: a key of a store is eventually removed from it unless a further    *)
(* request arrives, when the clock advances and the sweep timer fires      *)
C23_EventuallySwept ==
    \A id \in Ids : \A c \in 0..MaxLocalCalls :
        (HasKey(1, id) /\ loc.n = c) ~> (~HasKey(1, id) \/ loc.n # c)

(* the sweep after the expiry of the last timestamp has emptied the store *)
C23_Witness ==
    /\ loc.op = [name |-> "cleanup", inst |-> 1]
    /\ loc.n = MaxLocalCalls
    /\ MapOf(loc, 1) = EmptyMap
    /\ DOMAIN loc.plain = Ids
    /\ now > MaxTime

(* C25: a check on one instance leaves the Map of every other instance as  *)
(* it was                                                                  *)
C25_InstancesSeparate ==
    [][loc'.n = loc.n + 1 =>
          \A j \in DOMAIN loc.store \ {loc'.op.inst} :
              MapOf(loc', j) = MapOf(loc, j)
      ]_vars

(* the same identity key is exhausted in one instance and fresh in the     *)
(* other                                                                   *)
C25_Witness ==
    /\ DOMAIN loc.store = Insts
    /\ loc.op = [name |-> "check", inst |-> 1]
    /\ ~loc.res.allowed
    /\ "a" \in DOMAIN MapOf(loc, 1)
    /\ "a" \notin DOMAIN MapOf(loc, 2)

(* C26: given the same checkLimit, cleanup and reset calls, MemoryStore    *)
(* and SlidingWindowLimiter return the same decisions and hold the same    *)
(* map after every step                                                    *)
C26_LegacyEquivalence ==
    /\ loc.res = loc.resLegacy
    /\ 1 \in DOMAIN loc.store => MapOf(loc, 1) = loc.legacy
    /\ 1 \notin DOMAIN loc.store => loc.legacy = EmptyMap

(* checks, the last of them denied, and then a reset have been made on both *)
C26_Witness ==
    /\ loc.op = [name |-> "reset", inst |-> 1]
    /\ loc.n >= 2
    /\ loc.legacy = EmptyMap
    /\ Len(Stored(loc.plain, "a")) = 0 /\ loc.plain = EmptyMap
    /\ ~loc.res.allowed

(* the timestamps of the sequence never decrease from one to the next *)
NonDecreasing(seq) == \A n \in 1..(Len(seq) - 1) : seq[n] <= seq[n + 1]

(* C31: the sequence stored for a key never decreases in time, in the two  *)
(* local backends; in the shared store the first member of the range read  *)
(* carries, in its string, the lowest score of the key, and every member's *)
(* string carries its score                                                *)
C31_TimeOrdered ==
    /\ \A id \in DOMAIN requests : NonDecreasing(requests[id])
    /\ \A id \in DOMAIN limiter : NonDecreasing(limiter[id])
    /\ \A k \in DOMAIN db.zsets :
          /\ \A m \in db.zsets[k] : parseInt(SplitFirst(m.value)) = m.score
          /\ \A m \in db.zsets[k] :
                parseInt(SplitFirst(ZRangeFirst(db, k)[1])) <= m.score

(* a key that holds two admissions made at different times *)
C31_Witness ==
    /\ Stored(requests, "a") = <<500, 1001>>
    /\ Stored(limiter, "a") = <<500, 1001>>
    /\ \E p \in Pairs : {m.score : m \in Members(p)} = {500, 1001}

(* C32: an allowed check of the shared backend leaves its key with a       *)
(* time-to-live of 2 x windowMs, counted from the time of the check        *)
C32_TtlTwiceWindow ==
    [][(ncalls' = ncalls + 1 /\ last'.r.allowed) =>
          LET key == RedisStore_getKey(last'.id, last'.tier)
          IN  /\ key \in DOMAIN db'.ttl
              /\ db'.ttl[key] = now + 2 * windowMs
      ]_vars

(* C33: a run of the sweeper that no checkLimit call can interrupt handles *)
(* at most one key.  One run of cleanup() handles the entries the Map has  *)
(* when the timer fires; its loop has no await, so no other code runs      *)
(* before it has handled the last of them                                  *)
C33_SweepYieldsPerKey ==
    [][loc'.op.name = "cleanup" =>
          Cardinality(DOMAIN MapOf(loc, loc'.op.inst)) <= 1
      ]_vars

(* the check of request r has put its timestamp in the backend: the store  *)
(* returned an admission (after push, or after zAdd and expire), or the    *)
(* check failed at expire, after its zAdd                                  *)
Appended(r) ==
    \/ rq[r].out = "decision" /\ rq[r].res.allowed
    \/ rq[r].failedAt = "expire"

(* C34: every request that was forwarded with next() under a finite limit  *)
(* had its timestamp put in the backend before                             *)
C34_ForwardedIsCounted ==
    \A r \in Reqs :
        (pc[r] = "next" /\ IsFinite(rq[r].lim)) => Appended(r)

(* C35: the limit a request is checked against is a non-negative integer   *)
(* or Infinity, for every configured table and every resolved tier name    *)
(* that is not one of the names inherited from Object.prototype (those are *)
(* C19)                                                                    *)
C35_LimitDefined ==
    (fn.step = "limit" /\ fn.tier \notin ObjectPrototype) => fn.limit >= 0

(* C36: a request never gets more than one outcome, and a request that the *)
(* middleware has finished with got one: next() once or the 429 once       *)
C36_OneOutcome ==
    \A r \in Reqs :
        /\ rq[r].nexts + rq[r].sent <= 1
        /\ pc[r] \in {"next", "429"} => rq[r].nexts + rq[r].sent = 1

(* C37: when the connection check of the constructor has failed, rateGuard *)
(* has thrown and returned no middleware                                   *)
C37_ConnectionFailureThrown ==
    conn.check = "failed" => conn.step = "threw"

(* C38: a CleanupManager has no or one interval timer set, has one exactly *)
(* when its intervalId is set, and that exactly when the last of the       *)
(* start() and stop() calls made on it was start()                         *)
C38_OneTimer ==
    \A i \in DOMAIN loc.timer :
        /\ loc.active[i] \in {0, 1}
        /\ loc.timer[i] <=> (loc.active[i] = 1)
        /\ loc.timer[i] <=>
              (loc.calls[i] # <<>> /\ loc.calls[i][Len(loc.calls[i])] = "start")

(* start() has been called on a manager that was running, after a sweep    *)
(* had emptied the store                                                   *)
C38_Witness ==
    /\ loc.op = [name |-> "start", inst |-> 1]
    /\ loc.calls[1] = <<"start", "start">>
    /\ loc.active[1] = 1
    /\ loc.n > 0 /\ MapOf(loc, 1) = EmptyMap
====
